---- MODULE Spec2Model ----
(***************************************************************************)
(* A model of the gcp_actions helpers: the idempotency marker of           *)
(* firestore_as_swith.py and the blob helpers of blob_manipulation.py,     *)
(* each handler split at its remote requests so that callers interleave.   *)
(* Python values are written as strings ("True", "False", "None", "{}"),   *)
(* a Firestore document's dict as a record whose DOMAIN is the set of its  *)
(* fields.                                                                 *)
(***************************************************************************)
EXTENDS Integers, FiniteSets, Sequences, TLC

VARIABLES
    now,        \* the clock (hours): datetime.utcnow() and SERVER_TIMESTAMP
    clients,    \* the lru_cache of get_any_client: the keys it holds
    store,      \* Firestore: collection "processed_messages", key -> snapshot
    pc,         \* each caller's position in the handler it runs
    args,       \* each caller's arguments
    result,     \* each caller's outcome: what it returned or raised
    io,         \* each caller's remote requests in its current call
    marked,     \* the outcome of the last mark_processing_* call
    ncalls,     \* handler calls started so far
    nNew,       \* per key: calls that returned False ("new") so far
    nDup,       \* per key: calls that returned True ("duplicate") so far
    blobs,      \* Cloud Storage: the bucket's objects, path -> object
    files,      \* the local file system, path -> file
    last,       \* the blob helper call that completed last
    environ,    \* os.environ: variable name -> value, or Unset
    secrets,    \* Secret Manager: secret id -> its versions, oldest first
    cfg,        \* InjectConfig: what it reads from, its fields, its locals
    sm,         \* the Secret Manager helper call that completed last
    made,       \* get_any_client: the calls made and the clients constructed
    run,        \* check_cloud_or_local_run: its surroundings, cache and outcome
    upd,        \* add_or_update_secret_key: the call under way
    fire        \* the Firestore document of FirestoreMagic and the calls on it

baseVars == <<now, clients, store, pc, args, result, io, marked, ncalls, nNew, nDup,
              blobs, files, last>>
extVars == <<environ, secrets, cfg, sm, made, run, upd, fire>>
vars == <<baseVars, extVars>>
idemVars == <<now, store, marked, nNew, nDup>>
blobVars == <<blobs, files, last>>

----------------------------------------------------------------------------
(* Bounds *)

MaxTime == 1
MaxCalls == 3
MaxBlobCalls == 2
MaxSecretCalls == 3
MaxClientCalls == 3
MaxRunCalls == 2
MaxFireCalls == 2

Procs == {"p1", "p2"}
Keys == {"k1", "k2"}
\* The keys that have a record before the run (of an earlier run).
InitKeys == {"k2"}
TtlHours == {1}
ResultData == {"None", "r1"}
ErrorMessages == {"None", "boom"}

\* The environment (os.getenv) and the arguments of the blob helpers.
Environ == [GCS_BUCKET_NAME |-> "b"]
BucketNames == {"", "GCS_BUCKET_NAME"}
GcsPaths == {"", "a", "e"}
\* The objects the bucket holds before the run.
InitBlobs == {"e"}
LocalFiles == {"d/f", "d/g"}
InitFiles == {"d/f"}
\* Python values handed to json.dumps, written as their repr.
PyValues == {"{}", "(1, 2)", "set()"}
\* upload_to_gcp_bucket: <<filetype, local_path>>.
UploadInputs ==
    ({"filename"} \X LocalFiles) \cup ({"string"} \X PyValues)
        \cup {<<"file", "d/f">>, <<"string_path", "{}">>, <<"", "d/f">>}
\* download_from_gcp_bucket: <<filetype, local_path>>.
DownloadInputs == {<<"blob", "">>, <<"blob", "d/g">>, <<"text", "">>, <<"", "">>}

\* os.environ: the names the helpers read or inject.
EnvNames == {"A", "B", "S1", "S2", "SA", "GCP_PROJECT_ID", "K_REVISION", "K_SERVICE"}
\* The keys of the configuration dicts (Firestore document, secrets, local file).
ConfigNames == {"A", "B"}
SecretIds == {"s1", "s2"}

\* How a remote request ends: answered, failed, or (a write) applied with the
\* answer lost.
ReadOutcomes == {"ok", "fail"}
WriteOutcomes == {"ok", "fail", "lost"}

----------------------------------------------------------------------------
(* Values *)

EmptyDict == [f \in {} |-> 0]
NoDoc == [exists |-> FALSE, data |-> EmptyDict]
Doc(d) == [exists |-> TRUE, data |-> d]

Return(v) == [kind |-> "return", val |-> v]
Raise(e) == [kind |-> "raise", val |-> e]
NoResult == [kind |-> "none", val |-> ""]
NoArgs == [none |-> TRUE]
\* reads, writes: requests issued; faults: requests that failed; saw: what the
\* read reported.
NoIo == [reads |-> 0, writes |-> 0, faults |-> 0, saw |-> "none"]

Resting(p) == pc[p] \in {"idle", "done"}
\* No other caller is inside a handler: p's steps run as in a sequential program.
Quiet(p) == \A q \in Procs \ {p} : Resting(q)
AllQuiet == \A q \in Procs : Resting(q)

----------------------------------------------------------------------------
(* client.py *)

\* The arguments of get_any_client and the ways of passing them.
ClientNames == {"firestore", "Firestore", "storage", "pubsub"}
Principals == {"None", "sa"}
HowPassed == {"default", "positional", "keyword"}

\* lru_cache's key: the positional arguments, then a mark and the keyword
\* arguments. A default that is not passed is not part of the key.
lru_key(name, principal, how) ==
    CASE how = "default" -> <<name>>
      [] how = "positional" -> <<name, principal>>
      [] OTHER -> <<name, "target_principal", principal>>

\* `client_name.lower()`
lower(name) == IF name = "Firestore" THEN "firestore" ELSE name
client_map == {"firestore", "storage"}

\* Lines 44-92 under lru_cache(maxsize=8): a cached client is returned as is;
\* otherwise the body runs: ValueError for an unknown name, else the client
\* is constructed, which succeeds (and is cached) or raises RuntimeError.
\* The runs of this model hold fewer than 8 keys, so nothing is evicted.
cached_client(key, name, out) ==
    IF key \in clients
    THEN [ok |-> TRUE, err |-> "", cache |-> clients, built |-> FALSE]
    ELSE IF lower(name) \notin client_map
    THEN [ok |-> FALSE, err |-> "ValueError", cache |-> clients, built |-> FALSE]
    ELSE IF out = "ok"
    THEN [ok |-> TRUE, err |-> "", cache |-> clients \cup {key}, built |-> TRUE]
    ELSE [ok |-> FALSE, err |-> "RuntimeError", cache |-> clients, built |-> FALSE]

\* get_any_client(name), as the Firestore helpers call it.
get_any_client(name, out) == cached_client(lru_key(name, "None", "default"), name, out)

ClientOutcome(name, out) ==
    out \in ReadOutcomes /\ (lru_key(name, "None", "default") \in clients => out = "ok")

NoClientCalls ==
    [n |-> 0, built |-> [s \in ClientNames \X Principals |-> 0], result |-> NoResult]

\* One call of get_any_client, however spelled.
call_get_any_client(name, principal, how, out) ==
    /\ made.n < MaxClientCalls
    /\ out \in ReadOutcomes
    /\ how = "default" => principal = "None"
    /\ LET key == lru_key(name, principal, how)
           c == cached_client(key, name, out) IN
        /\ (key \in clients \/ lower(name) \notin client_map) => out = "ok"
        /\ clients' = c.cache
        /\ made' = [n |-> made.n + 1,
                    built |-> IF c.built
                              THEN [made.built EXCEPT ![<<name, principal>>] = @ + 1]
                              ELSE made.built,
                    result |-> IF c.ok THEN Return("client") ELSE Raise(c.err)]
    /\ UNCHANGED <<idemVars, blobVars, pc, args, result, io, ncalls,
                   environ, secrets, cfg, sm, run, upd, fire>>

----------------------------------------------------------------------------
(* firestore_as_swith.py: check_and_mark_processed *)

\* Mutant: the record is written with a status of "pending".
new_record_pending(k, ttl) ==
    [idempotency_key |-> k, processed_at |-> now, expires_at |-> now + ttl,
     status |-> "pending"]

\* The record doc_ref.set writes.
new_record(k, ttl) ==
    [idempotency_key |-> k, processed_at |-> now, expires_at |-> now + ttl]

\* Mutant: only a completed record counts as a duplicate.
is_duplicate_only_completed(doc) ==
    doc.exists /\ "status" \in DOMAIN doc.data /\ doc.data.status = "completed"

\* Mutant: the branch on doc.exists is lost, every key is taken as new.
is_duplicate_never(doc) == FALSE

\* Mutant: a record whose expires_at has passed no longer counts.
is_duplicate_unexpired(doc) == doc.exists /\ doc.data.expires_at >= now

\* `if doc.exists:`
is_duplicate(doc) == doc.exists

\* Mutant: a conditional write (create), which leaves an existing record alone.
create_document(k, rec) ==
    IF store[k].exists THEN store ELSE [store EXCEPT ![k] = Doc(rec)]

\* doc_ref.set(rec): writes the whole document, whether or not one exists.
set_document(k, rec) == [store EXCEPT ![k] = Doc(rec)]

\* Mutant: the handler lets the error out.
on_error_reraise == Raise("Exception")

\* Mutant: the handler fails closed, an error is reported as a duplicate.
on_error_duplicate == Return("True")

\* `except Exception as e: ... return False`
on_error == Return("False")

\* Lines 47-48: the client and the document reference.
check_and_mark_processed(p, k, ttl, out) ==
    /\ Resting(p)
    /\ ncalls < MaxCalls
    /\ ClientOutcome("firestore", out)
    /\ LET c == get_any_client("firestore", out) IN
        /\ clients' = c.cache
        /\ IF c.ok
           THEN /\ pc' = [pc EXCEPT ![p] = "get"]
                /\ result' = [result EXCEPT ![p] = NoResult]
           ELSE /\ pc' = [pc EXCEPT ![p] = "done"]
                /\ result' = [result EXCEPT ![p] = Raise("RuntimeError")]
    /\ args' = [args EXCEPT ![p] = [key |-> k, ttl |-> ttl]]
    /\ io' = [io EXCEPT ![p] = NoIo]
    /\ ncalls' = ncalls + 1
    /\ UNCHANGED <<now, store, marked, nNew, nDup, blobVars, extVars>>

\* Lines 53-59 (and 69-71): doc_ref.get() and the branch on doc.exists.
check_get(p, out) ==
    /\ pc[p] = "get"
    /\ out \in ReadOutcomes
    /\ LET k == args[p].key IN
        /\ io' = [io EXCEPT ![p].reads = @ + 1,
                            ![p].faults = @ + IF out = "ok" THEN 0 ELSE 1,
                            ![p].saw = IF out # "ok" THEN "none"
                                       ELSE IF store[k].exists THEN "present"
                                       ELSE "absent"]
        /\ IF out = "ok"
           THEN IF is_duplicate(store[k])
                THEN /\ pc' = [pc EXCEPT ![p] = "done"]
                     /\ result' = [result EXCEPT ![p] = Return("True")]
                     /\ nDup' = [nDup EXCEPT ![k] = @ + 1]
                     /\ nNew' = nNew
                ELSE /\ pc' = [pc EXCEPT ![p] = "set"]
                     /\ UNCHANGED <<result, nDup, nNew>>
           ELSE /\ pc' = [pc EXCEPT ![p] = "done"]
                /\ result' = [result EXCEPT ![p] = on_error]
                /\ nNew' = [nNew EXCEPT ![k] = @ + IF on_error = Return("False") THEN 1 ELSE 0]
                /\ nDup' = [nDup EXCEPT ![k] = @ + IF on_error = Return("True") THEN 1 ELSE 0]
    /\ UNCHANGED <<now, clients, store, args, marked, ncalls, blobVars, extVars>>

\* Lines 61-67 (and 69-71): doc_ref.set(...) and `return False`.
check_set(p, out) ==
    /\ pc[p] = "set"
    /\ out \in WriteOutcomes
    /\ LET k == args[p].key
           r == IF out = "ok" THEN Return("False") ELSE on_error IN
        /\ io' = [io EXCEPT ![p].writes = @ + 1,
                            ![p].faults = @ + IF out = "ok" THEN 0 ELSE 1]
        /\ store' = IF out \in {"ok", "lost"}
                    THEN set_document(k, new_record(k, args[p].ttl))
                    ELSE store
        /\ pc' = [pc EXCEPT ![p] = "done"]
        /\ result' = [result EXCEPT ![p] = r]
        /\ nNew' = [nNew EXCEPT ![k] = @ + IF r = Return("False") THEN 1 ELSE 0]
        /\ nDup' = [nDup EXCEPT ![k] = @ + IF r = Return("True") THEN 1 ELSE 0]
    /\ UNCHANGED <<now, clients, args, marked, ncalls, blobVars, extVars>>

----------------------------------------------------------------------------
(* firestore_as_swith.py: mark_processing_complete, mark_processing_failed *)

\* Mutant: the update creates the document when there is none (a set with
\* merge).
update_or_create(k, fields, out) ==
    /\ store' = IF out \in {"ok", "lost"}
                THEN [store EXCEPT ![k] = Doc(fields @@ store[k].data)]
                ELSE store
    /\ marked' = IF out = "ok" THEN Return("None") ELSE Raise("GoogleAPICallError")

\* doc_ref.update(fields): merges the fields into an existing document; on a
\* missing document, or when the request fails, it raises and writes nothing
\* ("lost": it writes and raises).
update(k, fields, out) ==
    IF ~store[k].exists
    THEN /\ store' = store
         /\ marked' = Raise("NotFound")
    ELSE /\ store' = IF out \in {"ok", "lost"}
                     THEN [store EXCEPT ![k] = Doc(fields @@ store[k].data)]
                     ELSE store
         /\ marked' = IF out = "ok" THEN Return("None") ELSE Raise("GoogleAPICallError")

complete_data(rd) ==
    IF rd # "None"
    THEN [completed_at |-> now, status |-> "completed", result |-> rd]
    ELSE [completed_at |-> now, status |-> "completed"]

failed_data(msg) ==
    [failed_at |-> now, status |-> "failed",
     error |-> IF msg # "None" THEN msg ELSE "Unknown error"]

\* Both handlers: the client, then one doc_ref.update.
mark(k, fields, cout, out) ==
    /\ ncalls < MaxCalls
    /\ ClientOutcome("firestore", cout)
    /\ out \in WriteOutcomes
    /\ LET c == get_any_client("firestore", cout) IN
        /\ clients' = c.cache
        /\ IF c.ok
           THEN update(k, fields, out)
           ELSE /\ out = "ok"
                /\ store' = store
                /\ marked' = Raise("RuntimeError")
    /\ ncalls' = ncalls + 1
    /\ UNCHANGED <<now, pc, args, result, io, nNew, nDup, blobVars, extVars>>

mark_processing_complete(k, rd, cout, out) ==
    mark(k, complete_data(rd), cout, out)

mark_processing_failed(k, msg, cout, out) ==
    mark(k, failed_data(msg), cout, out)

----------------------------------------------------------------------------
(* client.py: get_bucket *)

\* `os.getenv(bucket_name, bucket_name)`
actual_bucket_name(name) == IF name \in DOMAIN Environ THEN Environ[name] ELSE name

\* get_bucket: ValueError on an empty name, RuntimeError when the storage
\* client cannot be constructed, otherwise the handle (no request is made).
\* Its own lru_cache holds a handle only once the client is cached, and a
\* cached client never fails, so the client cache decides.
get_bucket(name, out) ==
    IF actual_bucket_name(name) = ""
    THEN [ok |-> FALSE, err |-> "ValueError", cache |-> clients]
    ELSE LET c == cached_client(lru_key("storage", "None", "keyword"), "storage", out) IN
         IF c.ok THEN [ok |-> TRUE, err |-> "", cache |-> c.cache]
         ELSE [ok |-> FALSE, err |-> "RuntimeError", cache |-> clients]

BucketOutcome(name, out) ==
    /\ out \in ReadOutcomes
    /\ (\/ actual_bucket_name(name) = ""
        \/ lru_key("storage", "None", "keyword") \in clients) => out = "ok"

----------------------------------------------------------------------------
(* blob_manipulation.py: values *)

NoBlob == [exists |-> FALSE, content |-> ""]
Blob(c) == [exists |-> TRUE, content |-> c]
NoFile == [exists |-> FALSE, content |-> ""]
File(c) == [exists |-> TRUE, content |-> c]

\* os.path.isfile
isfile(f) == f \in LocalFiles /\ files[f].exists

\* json.dumps: a dict as an object, a tuple as an array; a set is not
\* serialisable (TypeError).
json_serialisable(v) == v \in {"{}", "(1, 2)"}
json_dumps(v) == IF v = "(1, 2)" THEN "[1, 2]" ELSE v

\* json.loads: an object as a dict, an array as a list; any other text raises.
json_parses(t) == t \in {"{}", "[1, 2]"}
json_loads(t) == t

\* The call that completed last: its arguments, its requests, its outcome,
\* whether get_bucket gave it the handle, and whether the call completed
\* before it was a delete_blob of the same object that returned True.
NoCall ==
    [args |-> NoArgs, io |-> NoIo, result |-> NoResult, handle |-> FALSE,
     afterDelete |-> FALSE]
Completed(a, i, r, h) ==
    [args |-> a, io |-> i, result |-> r, handle |-> h,
     afterDelete |-> /\ last.result = Return("True")
                     /\ last.args = [op |-> "delete_blob", bucket |-> a.bucket, path |-> a.path]]

\* A call starts and goes on to its first request.
Enter(p, a, l) ==
    /\ pc[p] = "idle"
    /\ ncalls < MaxBlobCalls
    /\ ncalls' = ncalls + 1
    /\ pc' = [pc EXCEPT ![p] = l]
    /\ args' = [args EXCEPT ![p] = a]
    /\ io' = [io EXCEPT ![p] = NoIo]
    /\ last' = last

\* A call ends before any request.
Leave(p, a, r, h) ==
    /\ pc[p] = "idle"
    /\ ncalls < MaxBlobCalls
    /\ ncalls' = ncalls + 1
    /\ last' = Completed(a, NoIo, r, h)
    /\ UNCHANGED <<pc, args, io>>

\* A call goes on after a request.
Goto(p, i, l) ==
    /\ pc' = [pc EXCEPT ![p] = l]
    /\ io' = [io EXCEPT ![p] = i]
    /\ UNCHANGED <<args, last, ncalls>>

\* A call ends after a request.
Finish(p, i, r) ==
    /\ pc' = [pc EXCEPT ![p] = "idle"]
    /\ args' = [args EXCEPT ![p] = NoArgs]
    /\ io' = [io EXCEPT ![p] = NoIo]
    /\ last' = Completed(args[p], i, r, TRUE)
    /\ ncalls' = ncalls

\* A request counted: read or write, failed or not, and what the service
\* reported of the object.
Request(p, kind, out, saw) ==
    [reads |-> io[p].reads + IF kind = "read" THEN 1 ELSE 0,
     writes |-> io[p].writes + IF kind = "write" THEN 1 ELSE 0,
     faults |-> io[p].faults + IF out = "ok" THEN 0 ELSE 1,
     saw |-> saw]

----------------------------------------------------------------------------
(* blob_manipulation.py: delete_blob *)

\* Mutant: an absent blob is reported as a failure.
delete_absent_is_error == Return("False")

\* `else: ... return True`: the blob does not exist.
delete_absent == Return("True")

\* The three except clauses: `return False`.
delete_error == Return("False")

\* Lines 181-186: the bucket handle (outside the try) and the empty name.
delete_blob(p, bn, path, out) ==
    /\ pc[p] = "idle" /\ ncalls < MaxBlobCalls
    /\ BucketOutcome(bn, out)
    /\ LET h == get_bucket(bn, out)
           a == [op |-> "delete_blob", bucket |-> actual_bucket_name(bn), path |-> path] IN
        /\ clients' = h.cache
        /\ IF ~h.ok THEN Leave(p, a, Raise(h.err), FALSE)
           ELSE IF path = "" THEN Leave(p, a, Return("True"), TRUE)
           ELSE Enter(p, a, "del_exists")
    /\ UNCHANGED <<idemVars, extVars, result, blobs, files>>

\* Lines 188-189, 194-197: blob.exists().
delete_exists(p, out) ==
    /\ pc[p] = "del_exists"
    /\ out \in ReadOutcomes
    /\ LET b == blobs[args[p].path] IN
        IF out # "ok" THEN Finish(p, Request(p, "read", out, "none"), delete_error)
        ELSE IF b.exists THEN Goto(p, Request(p, "read", out, "present"), "del_delete")
        ELSE Finish(p, Request(p, "read", out, "absent"), delete_absent)
    /\ UNCHANGED <<idemVars, extVars, clients, result, blobs, files>>

\* Lines 190-193, 199-213: blob.delete(), which answers NotFound when the
\* object is gone by now.
delete_delete(p, out) ==
    /\ pc[p] = "del_delete"
    /\ out \in WriteOutcomes
    /\ LET x == args[p].path IN
        /\ blobs' = IF out \in {"ok", "lost"} THEN [blobs EXCEPT ![x] = NoBlob] ELSE blobs
        /\ IF out = "ok" /\ blobs[x].exists
           THEN Finish(p, Request(p, "write", out, "present"), Return("True"))
           ELSE Finish(p, Request(p, "write", out,
                                  IF blobs[x].exists THEN "present" ELSE "gone"),
                       delete_error)
    /\ UNCHANGED <<idemVars, extVars, clients, result, files>>

----------------------------------------------------------------------------
(* blob_manipulation.py: upload_to_gcp_bucket *)

\* Mutant: the check of the target path is lost.
path_is_empty_unchecked(gcs_path) == FALSE

\* `if not gcs_path:`
path_is_empty(gcs_path) == gcs_path = ""

\* Mutant: every filetype is uploaded as a string.
filetype_uploads_any(filetype) == TRUE

\* The `if filetype == ...` branches that go on to an upload request
\* ("file" has raised before); any other filetype falls through to the
\* final `return None`.
filetype_uploads(filetype) == filetype \in {"filename", "string", "string_path"}

\* Mutant: the value is sent as it is, not as its JSON text.
upload_content_raw(ft, local) ==
    IF ft = "filename" THEN files[local].content ELSE local

\* What the upload sends: the file's bytes, the JSON text, or the string.
upload_content(ft, local) ==
    IF ft = "filename" THEN files[local].content
    ELSE IF ft = "string" THEN json_dumps(local)
    ELSE local

\* Lines 66-73, 80-82, 89-90, 97-98, 105: everything before the request.
\* "file": upload_from_file is handed the path, not a file object, and
\* raises inside the try before any request. "string": so does json.dumps on
\* a value it cannot serialise.
upload_to_gcp_bucket(p, bn, path, ft, local, out) ==
    /\ pc[p] = "idle" /\ ncalls < MaxBlobCalls
    /\ BucketOutcome(bn, out)
    /\ LET h == get_bucket(bn, out)
           a == [op |-> "upload_to_gcp_bucket", bucket |-> actual_bucket_name(bn),
                 path |-> path, filetype |-> ft, local |-> local] IN
        /\ clients' = h.cache
        /\ IF ~h.ok THEN Leave(p, a, Raise(h.err), FALSE)
           ELSE IF path_is_empty(path) THEN Leave(p, a, Raise("ValueError"), TRUE)
           ELSE IF ft \in {"filename", "file"} /\ ~isfile(local)
                THEN Leave(p, a, Raise("FileNotFoundError"), TRUE)
           ELSE IF ft = "file" THEN Leave(p, a, Raise("RuntimeError"), TRUE)
           ELSE IF ft = "string" /\ ~json_serialisable(local)
                THEN Leave(p, a, Raise("RuntimeError"), TRUE)
           ELSE IF filetype_uploads(ft) THEN Enter(p, a, "up_write")
           ELSE Leave(p, a, Return("None"), TRUE)
    /\ UNCHANGED <<idemVars, extVars, result, blobs, files>>

\* Mutant: an upload onto an existing object keeps the old content.
blob_upload_keeps_old(x, c) ==
    IF blobs[x].exists THEN blobs ELSE [blobs EXCEPT ![x] = Blob(c)]

\* blob.upload_from_filename / upload_from_string: the object is created, or
\* replaced as a whole.
blob_upload(x, c) == [blobs EXCEPT ![x] = Blob(c)]

\* Lines 74-79, 91-96, 99-104: the upload request.
upload_write(p, out) ==
    /\ pc[p] = "up_write"
    /\ out \in WriteOutcomes
    /\ LET x == args[p].path
           c == upload_content(args[p].filetype, args[p].local) IN
        /\ blobs' = IF out \in {"ok", "lost"} THEN blob_upload(x, c) ELSE blobs
        /\ Finish(p, Request(p, "write", out, "none"),
                  IF out = "ok" THEN Return(x) ELSE Raise("RuntimeError"))
    /\ UNCHANGED <<idemVars, extVars, clients, result, files>>

----------------------------------------------------------------------------
(* blob_manipulation.py: download_from_gcp_bucket *)

\* Mutant: a missing text object is reported as None.
download_absent_none(ft) == IF ft = "blob" THEN Return("False") ELSE Return("None")

\* Lines 131-136 (and 159): the object does not exist.
download_absent(ft) ==
    IF ft = "blob" THEN Return("False")
    ELSE IF ft = "text" THEN Return("{}")
    ELSE Return("None")

\* Lines 125-130: the bucket handle and the blob name.
download_from_gcp_bucket(p, bn, name, ft, local, out) ==
    /\ pc[p] = "idle" /\ ncalls < MaxBlobCalls
    /\ BucketOutcome(bn, out)
    /\ LET h == get_bucket(bn, out)
           a == [op |-> "download_from_gcp_bucket", bucket |-> actual_bucket_name(bn),
                 path |-> name, filetype |-> ft, local |-> local] IN
        /\ clients' = h.cache
        /\ IF ~h.ok THEN Leave(p, a, Raise(h.err), FALSE)
           ELSE IF name = "" THEN Leave(p, a, Raise("ValueError"), TRUE)
           ELSE Enter(p, a, "down_exists")
    /\ UNCHANGED <<idemVars, extVars, result, blobs, files>>

\* Lines 131-143, 159: blob.exists() (outside any try), then the checks made
\* before the download.
download_exists(p, out) ==
    /\ pc[p] = "down_exists"
    /\ out \in ReadOutcomes
    /\ LET b == blobs[args[p].path]
           ft == args[p].filetype IN
        IF out # "ok"
        THEN Finish(p, Request(p, "read", out, "none"), Raise("GoogleAPICallError"))
        ELSE IF ~b.exists
        THEN Finish(p, Request(p, "read", out, "absent"), download_absent(ft))
        ELSE IF ft = "blob" /\ args[p].local = ""
        THEN Finish(p, Request(p, "read", out, "present"), Raise("ValueError"))
        ELSE IF ft \in {"blob", "text"}
        THEN Goto(p, Request(p, "read", out, "present"), "down_read")
        ELSE Finish(p, Request(p, "read", out, "present"), Return("None"))
    /\ UNCHANGED <<idemVars, extVars, clients, result, blobs, files>>

\* Lines 144-148, 152-157: the download request. download_to_filename opens
\* the local file for writing before it asks, so a failed download leaves it
\* empty.
download_read(p, out) ==
    /\ pc[p] = "down_read"
    /\ out \in ReadOutcomes
    /\ LET b == blobs[args[p].path]
           ft == args[p].filetype
           ok == out = "ok" /\ b.exists
           i == Request(p, "read", out, IF b.exists THEN "present" ELSE "gone") IN
        IF ft = "blob"
        THEN /\ files' = [files EXCEPT ![args[p].local] = File(IF ok THEN b.content ELSE "")]
             /\ Finish(p, i, IF ok THEN Return("True") ELSE Raise("RuntimeError"))
        ELSE /\ files' = files
             /\ Finish(p, i, IF ok /\ json_parses(b.content)
                             THEN Return(json_loads(b.content))
                             ELSE Raise("RuntimeError"))
    /\ UNCHANGED <<idemVars, extVars, clients, result, blobs>>

----------------------------------------------------------------------------
(* common_utils/init_config.py: InjectConfig *)

Unset == "<unset>"
\* os.getenv(name) is falsy: the variable is unset or empty.
getenv_falsy(name) == environ[name] \in {Unset, ""}

\* What a file or a secret version holds: JSON text of an object (the dict it
\* parses to), JSON text of an array, or text that is not JSON; pad: the text
\* has white space around it.
DictPayload(d) == [kind |-> "dict", value |-> d, pad |-> FALSE]
ListPayload == [kind |-> "list", value |-> EmptyDict, pad |-> FALSE]
TextPayload == [kind |-> "text", value |-> EmptyDict, pad |-> FALSE]
Padded(t) == [t EXCEPT !.pad = TRUE]

\* str(value), for the values of the configuration dicts (written as repr).
str(v) ==
    CASE v = "'f'" -> "f"
      [] v = "'s1'" -> "s1"
      [] v = "'s2'" -> "s2"
      [] v = "'l'" -> "l"
      [] v = "'1'" -> "1"
      [] OTHER -> v

\* d.update(e)
dict_update(d, e) == e @@ d

\* What load_and_inject_config may find. The Firestore document
\* config/local/settings/data:
ConfigDocs == {NoDoc, Doc([A |-> "'f'"]), Doc([A |-> "'f'", B |-> "1"])}
\* the latest version of each secret:
SecretPayloads ==
    [s1 : {DictPayload([A |-> "'s1'"]), DictPayload([A |-> "'s1'", B |-> "'1'"]),
           TextPayload},
     s2 : {DictPayload([A |-> "'s2'"]), ListPayload}]
\* the project root (.git) and local_config.json in it:
LocalConfigs ==
    {[root |-> FALSE, file |-> File(DictPayload([A |-> "'l'"]))],
     [root |-> TRUE, file |-> File(TextPayload)],
     [root |-> TRUE, file |-> File(ListPayload)],
     [root |-> TRUE, file |-> File(DictPayload([A |-> "'l'"]))],
     [root |-> TRUE, file |-> File(DictPayload([A |-> "True", B |-> "'l'"]))]}
\* the constructor's arguments:
SecretEnvVarLists == {<<>>, <<"S1">>, <<"S1", "S2">>, <<"S2", "S1">>}
SaEnvVarLists == {<<>>, <<"None", "None", "SA">>}

NoConfig ==
    [stage |-> "none", doc |-> NoDoc, local |-> [root |-> FALSE, file |-> NoFile],
     list_of_secret_env_vars |-> <<>>, list_of_sa_env_vars |-> <<>>,
     from_firestore |-> FALSE, firestore_config |-> EmptyDict,
     all_secrets_data |-> EmptyDict, idx |-> 0, loaded |-> <<>>,
     local_overrides |-> EmptyDict, merged_config |-> EmptyDict, result |-> NoResult]

\* The surroundings of one run: the document, the secrets, the local file and
\* the environment the process starts with.
config_world(doc, sp, lc, s2set) ==
    /\ cfg.stage = "none"
    /\ cfg' = [cfg EXCEPT !.stage = "made", !.doc = doc, !.local = lc]
    /\ secrets' = [i \in SecretIds |-> <<sp[i]>>]
    /\ environ' = [n \in EnvNames |->
                     CASE n = "GCP_PROJECT_ID" -> "proj"
                       [] n = "S1" -> "s1"
                       [] n = "S2" -> IF s2set THEN "s2" ELSE Unset
                       [] n = "B" -> "old"
                       [] OTHER -> Unset]
    /\ UNCHANGED <<baseVars, sm, made, run, upd, fire>>

\* Lines 34-50: __init__.
InjectConfig(secret_vars, sa_vars, from_firestore) ==
    /\ cfg.stage = "made"
    /\ cfg' = IF getenv_falsy("GCP_PROJECT_ID")
              THEN [cfg EXCEPT !.stage = "done", !.result = Raise("EnvironmentError")]
              ELSE [cfg EXCEPT !.stage = "init",
                               !.list_of_secret_env_vars = secret_vars,
                               !.list_of_sa_env_vars = sa_vars,
                               !.from_firestore = from_firestore]
    /\ UNCHANGED <<baseVars, environ, secrets, sm, made, run, upd, fire>>

\* load_firejson on config/local/settings/data: the document's dict; an empty
\* dict when the document is missing or the request fails.
load_firejson(doc, out) == IF out = "ok" /\ doc.exists THEN doc.data ELSE EmptyDict

\* Lines 102, 105-106 (_inject_firestore, lines 52-65): the Firestore part,
\* then the branch on the list of secrets.
inject_firestore(cout, out) ==
    /\ cfg.stage = "init"
    /\ out \in ReadOutcomes
    /\ IF cfg.from_firestore
       THEN /\ ClientOutcome("firestore", cout)
            /\ LET c == get_any_client("firestore", cout) IN
                /\ clients' = c.cache
                /\ IF ~c.ok
                   THEN /\ out = "ok"
                        /\ cfg' = [cfg EXCEPT !.stage = "done",
                                              !.result = Raise("RuntimeError")]
                   ELSE cfg' = [cfg EXCEPT
                           !.firestore_config = load_firejson(cfg.doc, out),
                           !.idx = 1,
                           !.stage = IF cfg.list_of_secret_env_vars # <<>>
                                     THEN "secrets" ELSE "merge"]
       ELSE /\ cout = "ok" /\ out = "ok"
            /\ clients' = clients
            /\ cfg' = [cfg EXCEPT
                           !.firestore_config = EmptyDict,
                           !.idx = 1,
                           !.stage = IF cfg.list_of_secret_env_vars # <<>>
                                     THEN "secrets" ELSE "merge"]
    /\ UNCHANGED <<idemVars, blobVars, pc, args, result, io, ncalls, environ, secrets, sm, made, run, upd, fire>>

\* itertools.zip_longest(secrets, accounts, fillvalue=None): the i-th pair.
zip_longest(a, b, i) ==
    <<IF i <= Len(a) THEN a[i] ELSE "None", IF i <= Len(b) THEN b[i] ELSE "None">>
zip_len(a, b) == IF Len(a) >= Len(b) THEN Len(a) ELSE Len(b)

\* Lines 108-129: one turn of the loop over the secrets. An exception (the
\* fill value handed to os.getenv, the client, the request, a payload that is
\* not JSON, a payload that is not an object) ends the loop with what was
\* loaded so far.
load_secret(out) ==
    /\ cfg.stage = "secrets"
    /\ out \in ReadOutcomes
    /\ LET pair == zip_longest(cfg.list_of_secret_env_vars, cfg.list_of_sa_env_vars, cfg.idx)
           n == zip_len(cfg.list_of_secret_env_vars, cfg.list_of_sa_env_vars)
           next == IF cfg.idx + 1 > n THEN "merge" ELSE "secrets"
           abort == [cfg EXCEPT !.stage = "merge"] IN
        IF pair[1] = "None" THEN out = "ok" /\ cfg' = abort
        ELSE IF getenv_falsy(pair[1])
        THEN out = "ok" /\ cfg' = [cfg EXCEPT !.idx = @ + 1, !.stage = next]
        ELSE LET id == environ[pair[1]]
                 v == secrets[id] IN
             IF out # "ok" \/ v = <<>> \/ v[Len(v)].kind # "dict"
             THEN cfg' = abort
             ELSE cfg' = [cfg EXCEPT
                     !.all_secrets_data = dict_update(@, v[Len(v)].value),
                     !.loaded = Append(@, id),
                     !.idx = @ + 1,
                     !.stage = next]
    /\ UNCHANGED <<baseVars, environ, secrets, sm, made, run, upd, fire>>

\* Mutant: the Firestore values win over the secrets.
merge_configs_firestore_first(firestore_config, all_secrets_data) ==
    firestore_config @@ all_secrets_data

\* Line 134: {**firestore_config, **all_secrets_data}
merge_configs(firestore_config, all_secrets_data) ==
    all_secrets_data @@ firestore_config

\* Mutant: the local file only fills the keys the remote sources left out.
add_local_variables_remote_first(merged_config, lc, out) ==
    IF lc.root /\ lc.file.exists /\ out = "ok" /\ lc.file.content.kind # "text"
    THEN IF lc.file.content.kind = "list"
         THEN [ok |-> FALSE, overrides |-> EmptyDict, merged |-> merged_config]
         ELSE [ok |-> TRUE, overrides |-> lc.file.content.value,
               merged |-> IF merged_config = EmptyDict THEN merged_config
                          ELSE merged_config @@ lc.file.content.value]
    ELSE [ok |-> TRUE, overrides |-> EmptyDict, merged |-> merged_config]

\* Lines 68-83: add_local_variables, seen from its caller. Without a project
\* root or a file, and when the file cannot be read or is not JSON, the dict
\* stays as it is; a JSON array makes dict.update raise; an object updates
\* the dict in place, unless the dict handed in is empty: then `merged_config
\* = {}` rebinds the name and the caller's dict stays empty.
add_local_variables(merged_config, lc, out) ==
    IF lc.root /\ lc.file.exists /\ out = "ok" /\ lc.file.content.kind # "text"
    THEN IF lc.file.content.kind = "list"
         THEN [ok |-> FALSE, overrides |-> EmptyDict, merged |-> merged_config]
         ELSE [ok |-> TRUE, overrides |-> lc.file.content.value,
               merged |-> IF merged_config = EmptyDict THEN merged_config
                          ELSE dict_update(merged_config, lc.file.content.value)]
    ELSE [ok |-> TRUE, overrides |-> EmptyDict, merged |-> merged_config]

\* Lines 85-92: _final_merge, `os.environ[key] = str(value)`.
final_merge(merged_config) ==
    [n \in EnvNames |->
        IF n \in DOMAIN merged_config THEN str(merged_config[n]) ELSE environ[n]]

\* Lines 134-139: the merge, the local overrides, the injection.
merge_and_inject(out) ==
    /\ cfg.stage = "merge"
    /\ out \in ReadOutcomes
    /\ (out = "fail" => cfg.local.root /\ cfg.local.file.exists)
    /\ LET m == merge_configs(cfg.firestore_config, cfg.all_secrets_data)
           l == add_local_variables(m, cfg.local, out) IN
        IF l.ok
        THEN /\ environ' = final_merge(l.merged)
             /\ cfg' = [cfg EXCEPT !.stage = "done", !.local_overrides = l.overrides,
                                   !.merged_config = l.merged,
                                   !.result = Return("None")]
        ELSE /\ environ' = environ
             /\ cfg' = [cfg EXCEPT !.stage = "done", !.result = Raise("TypeError")]
    /\ UNCHANGED <<baseVars, secrets, sm, made, run, upd, fire>>

----------------------------------------------------------------------------
(* secret_manager.py: SecretManagerClient; gcloud_helpers/google_secret_manager.py *)

\* The values handed to update_secret_string: text (of a JSON object, with
\* white space around it, not JSON), or None in place of a str.
NonePayload == [kind |-> "none", value |-> EmptyDict, pad |-> FALSE]
NewValues ==
    {DictPayload([A |-> "'s1'"]), Padded(DictPayload([A |-> "'s2'"])), TextPayload,
     NonePayload}
\* The dicts handed to update_secret_json; a set is not JSON-serialisable.
NewDicts == {[A |-> "'s1'", B |-> "'1'"], [B |-> "set()"]}

\* json.dumps(new_data_dict, indent=2): the JSON text of the object.
dict_serialisable(d) == \A k \in DOMAIN d : d[k] # "set()"
dict_dumps(d) == DictPayload(d)
\* str.strip()
strip(t) == [t EXCEPT !.pad = FALSE]

NoSecretCall ==
    [n |-> 0, op |-> "", id |-> "", value |-> NonePayload, before |-> <<>>,
     result |-> NoResult, read |-> NonePayload, project |-> "", key |-> "", val |-> ""]
SecretCall(op, id, value, r, read) ==
    [n |-> sm.n + 1, op |-> op, id |-> id, value |-> value,
     before |-> IF id \in SecretIds THEN secrets[id] ELSE <<>>,
     result |-> r, read |-> read, project |-> "", key |-> "", val |-> ""]

\* Mutant: the update replaces the latest version instead of adding one.
add_secret_version_in_place(versions, payload) ==
    IF versions = <<>> THEN <<payload>>
    ELSE [versions EXCEPT ![Len(versions)] = payload]

\* secret_client.add_secret_version: a new version after the existing ones.
add_secret_version(versions, payload) == Append(versions, payload)

\* Lines 124-131: update_secret_string. `new_value.encode` raises on a value
\* that is not a str, before the request.
secret_add(op, id, new_value, out) ==
    /\ sm.n < MaxSecretCalls
    /\ out \in WriteOutcomes
    /\ IF new_value.kind = "none"
       THEN /\ out = "ok"
            /\ secrets' = secrets
            /\ sm' = SecretCall(op, id, new_value, Raise("AttributeError"), NonePayload)
       ELSE /\ secrets' = IF out \in {"ok", "lost"}
                          THEN [secrets EXCEPT ![id] = add_secret_version(@, new_value)]
                          ELSE secrets
            /\ sm' = SecretCall(op, id, new_value,
                                IF out = "ok" THEN Return("None")
                                ELSE Raise("GoogleAPICallError"), NonePayload)
    /\ UNCHANGED <<baseVars, environ, cfg, made, run, upd, fire>>

update_secret_string(id, new_value, out) ==
    secret_add("update_secret_string", id, new_value, out)

\* gcloud_helpers/google_secret_manager.py, lines 39-46: update_secret.
update_secret(id, new_value, out) ==
    secret_add("update_secret", id, new_value, out)

\* Lines 90-103: update_secret_json. json.dumps raises on a value it cannot
\* serialise, before the request.
update_secret_json(id, new_data_dict, out) ==
    IF dict_serialisable(new_data_dict)
    THEN secret_add("update_secret_json", id, dict_dumps(new_data_dict), out)
    ELSE /\ sm.n < MaxSecretCalls
         /\ out = "ok"
         /\ secrets' = secrets
         /\ sm' = SecretCall("update_secret_json", id, NonePayload, Raise("TypeError"),
                             NonePayload)
         /\ UNCHANGED <<baseVars, environ, cfg, made, run, upd, fire>>

\* secret_client.access_secret_version of .../versions/latest: NotFound when
\* the secret has no version.
access_latest(id, out) ==
    IF out = "ok" /\ secrets[id] # <<>>
    THEN [ok |-> TRUE, data |-> secrets[id][Len(secrets[id])]]
    ELSE [ok |-> FALSE, data |-> NonePayload]

\* Lines 105-122: get_secret_string(secret_id), version "latest", UTF-8.
get_secret_string(id, out) ==
    /\ sm.n < MaxSecretCalls
    /\ out \in ReadOutcomes
    /\ LET r == access_latest(id, out) IN
        sm' = SecretCall("get_secret_string", id, NonePayload,
                         IF r.ok THEN Return("str") ELSE Raise("GoogleAPICallError"),
                         IF r.ok THEN strip(r.data) ELSE NonePayload)
    /\ UNCHANGED <<baseVars, environ, secrets, cfg, made, run, upd, fire>>

----------------------------------------------------------------------------
(* common_utils/local_runner.py: check_cloud_or_local_run *)

CLOUD_RUN_SERVICE_VAR == "K_SERVICE"
CLOUD_RUN_REVISION_VAR == "K_REVISION"
CRITICAL_LOCAL_VAR == "GCP_PROJECT_ID"
DEFAULT_APP_ID == "local-dev-mode"

\* keys.env or .env as _find_env_file_path finds it: no file, a file without
\* variables, a file with variables.
EnvFiles ==
    {NoFile, File(EmptyDict), File([A |-> "file"]), File([GCP_PROJECT_ID |-> "file"]),
     File([GCP_PROJECT_ID |-> "file", A |-> "file"])}
\* The environment the process starts with.
StartEnvirons ==
    {[n \in EnvNames |->
         CASE n = "K_REVISION" -> rev
           [] n = "K_SERVICE" -> svc
           [] n = "GCP_PROJECT_ID" -> proj
           [] n = "A" -> a
           [] OTHER -> Unset] :
     rev \in {Unset, "", "rev"}, svc \in {Unset, "svc"},
     proj \in {Unset, "shell"}, a \in {Unset, "shell"}}

NoRun ==
    [stage |-> "none", file |-> NoFile, start |-> [n \in EnvNames |-> Unset],
     calls |-> 0, cache |-> NoResult, result |-> NoResult, read_file |-> FALSE]

\* The surroundings of a process: its environment and the env file.
run_world(env, file) ==
    /\ run.stage = "none"
    /\ run' = [run EXCEPT !.stage = "started", !.file = file, !.start = env]
    /\ environ' = env
    /\ UNCHANGED <<baseVars, secrets, cfg, sm, made, upd, fire>>

\* Mutant: the file's values replace the ones the process started with.
load_dotenv_override(content) ==
    [n \in EnvNames |-> IF n \in DOMAIN content THEN content[n] ELSE environ[n]]

\* load_dotenv(dotenv_path, override=False): the environment after it. A
\* variable that is in os.environ keeps its value.
load_dotenv(content) ==
    [n \in EnvNames |->
        IF n \in DOMAIN content /\ environ[n] = Unset THEN content[n] ELSE environ[n]]

\* Lines 53-87, the body: what it returns or raises, the environment it
\* leaves, and whether it read the env file.
run_body ==
    IF environ[CLOUD_RUN_REVISION_VAR] \notin {Unset, ""}
    THEN [result |-> Return(IF environ[CLOUD_RUN_SERVICE_VAR] # Unset
                            THEN environ[CLOUD_RUN_SERVICE_VAR] ELSE "CR_ID_MISSING"),
          env |-> environ, read |-> FALSE]
    ELSE IF environ[CRITICAL_LOCAL_VAR] # Unset
    THEN [result |-> Return(DEFAULT_APP_ID), env |-> environ, read |-> FALSE]
    ELSE IF ~run.file.exists
    THEN [result |-> Raise("FileNotFoundError"), env |-> environ, read |-> FALSE]
    ELSE LET e == load_dotenv(run.file.content) IN
         IF run.file.content = EmptyDict
         THEN [result |-> Raise("IOError"), env |-> e, read |-> TRUE]
         ELSE IF e[CRITICAL_LOCAL_VAR] = Unset
         THEN [result |-> Raise("ValueError"), env |-> e, read |-> TRUE]
         ELSE [result |-> Return(DEFAULT_APP_ID), env |-> e, read |-> TRUE]

\* Lines 43-87: check_cloud_or_local_run under lru_cache(maxsize=1): a value
\* returned before is returned again and the body does not run; an exception
\* is not cached.
check_cloud_or_local_run ==
    /\ run.stage = "started"
    /\ run.calls < MaxRunCalls
    /\ IF run.cache.kind = "return"
       THEN /\ run' = [run EXCEPT !.calls = @ + 1, !.result = run.cache,
                                  !.read_file = FALSE]
            /\ environ' = environ
       ELSE LET b == run_body IN
            /\ run' = [run EXCEPT !.calls = @ + 1, !.result = b.result,
                                  !.cache = IF b.result.kind = "return" THEN b.result
                                            ELSE NoResult,
                                  !.read_file = b.read]
            /\ environ' = b.env
    /\ UNCHANGED <<baseVars, secrets, cfg, sm, made, upd, fire>>

----------------------------------------------------------------------------
(* secret/add_secret_to_JSON_dict.py: add_or_update_secret_key *)

\* The arguments: an empty string stands for any falsy value.
ProjectIds == {"", "proj"}
KeyArgs == {"", "A", "B"}
ValueArgs == {"'v'", "set()"}

NoUpdate == [stage |-> "idle", project |-> "", id |-> "", key |-> "", val |-> "",
             read |-> NonePayload]

\* Mutant: the new version holds the one key only.
set_key_alone(secret_dict, key, value) == key :> value

\* `secret_dict[key] = value`
set_key(secret_dict, key, value) == (key :> value) @@ secret_dict

KeyCall(a, value, r) ==
    [SecretCall("add_or_update_secret_key", a.id, value, r, a.read)
        EXCEPT !.project = a.project, !.key = a.key, !.val = a.val]

\* Lines 28-41 (and 49-54): the check of the arguments, the client, the read
\* of the latest version and its parsing. A list in place of the object makes
\* `secret_dict[key] = value` raise.
add_or_update_secret_key(project_id, secret_id, key, value, out) ==
    /\ upd.stage = "idle"
    /\ sm.n < MaxSecretCalls
    /\ out \in ReadOutcomes
    /\ LET a == [stage |-> "write", project |-> project_id, id |-> secret_id,
                 key |-> key, val |-> value, read |-> NonePayload] IN
        IF project_id = "" \/ secret_id = "" \/ key = ""
        THEN /\ out = "ok"
             /\ sm' = KeyCall(a, NonePayload, Return("False"))
             /\ upd' = upd
        ELSE LET r == access_latest(secret_id, out) IN
             IF r.ok /\ r.data.kind = "dict"
             THEN /\ upd' = [a EXCEPT !.read = strip(r.data)]
                  /\ sm' = sm
             ELSE /\ sm' = KeyCall([a EXCEPT !.read = IF r.ok THEN strip(r.data)
                                                     ELSE NonePayload],
                                   NonePayload, Return("False"))
                  /\ upd' = upd
    /\ UNCHANGED <<baseVars, environ, secrets, cfg, made, run, fire>>

\* Lines 41-47 (and 49-54): the key is set, the dict written as a new version.
add_or_update_write(out) ==
    /\ upd.stage = "write"
    /\ out \in WriteOutcomes
    /\ LET d == set_key(upd.read.value, upd.key, upd.val) IN
        IF ~dict_serialisable(d)
        THEN /\ out = "ok"
             /\ secrets' = secrets
             /\ sm' = KeyCall(upd, NonePayload, Return("False"))
        ELSE /\ secrets' = IF out \in {"ok", "lost"}
                           THEN [secrets EXCEPT ![upd.id] = add_secret_version(@, dict_dumps(d))]
                           ELSE secrets
             /\ sm' = KeyCall(upd, dict_dumps(d),
                              IF out = "ok" THEN Return("True") ELSE Return("False"))
    /\ upd' = NoUpdate
    /\ UNCHANGED <<baseVars, environ, cfg, made, run, fire>>

----------------------------------------------------------------------------
(* The clock *)

Tick ==
    /\ now < MaxTime
    /\ now' = now + 1
    /\ UNCHANGED <<clients, store, pc, args, result, io, marked, ncalls, nNew, nDup, blobVars, extVars>>

----------------------------------------------------------------------------
(* firestore_box/json_manipulations.py and firestore/json_manipulations.py: *)
(* FirestoreMagic, the calls on one document                                *)

\* The document before the run, the placeholder_full of the instance (None by
\* default), the template handed to create_single_firejson, and what another
\* writer sets.
FireDocs == {NoDoc, Doc([A |-> "'f'"])}
NoPlaceholder == [given |-> FALSE, data |-> EmptyDict]
Placeholder(d) == [given |-> TRUE, data |-> d]
Placeholders == {NoPlaceholder, Placeholder([A |-> "'p'"])}
Templates == {[A |-> "'t'"]}
FireData == {[A |-> "'w'"]}

\* What a call gave: a dict, None, or an exception.
FireDict(d) == [kind |-> "dict", val |-> d]
FireNone == [kind |-> "None", val |-> EmptyDict]
FireRaise == [kind |-> "raise", val |-> EmptyDict]

\* The call that completed last: its result, what its get found, whether its
\* set was applied.
NoFireCall == [op |-> "", result |-> [kind |-> "none", val |-> EmptyDict],
               found |-> "none", wrote |-> FALSE]
FireCall(op, r, found, wrote) ==
    [op |-> op, result |-> r, found |-> found, wrote |-> wrote]

NoFire ==
    [stage |-> "none", start |-> NoDoc, doc |-> NoDoc,
     placeholder_full |-> NoPlaceholder,
     pc |-> [p \in Procs |-> "idle"],
     base_json_data |-> [p \in Procs |-> EmptyDict],
     n |-> 0, last |-> NoFireCall]

\* The surroundings of the run: the document and the instance's placeholder.
fire_world(doc, ph) ==
    /\ fire.stage = "none"
    /\ fire' = [fire EXCEPT !.stage = "made", !.start = doc, !.doc = doc,
                            !.placeholder_full = ph]
    /\ UNCHANGED <<baseVars, environ, secrets, cfg, sm, made, run, upd>>

FireQuiet(p) == \A q \in Procs \ {p} : fire.pc[q] = "idle"

\* A call can start; the call, started.
fire_idle(p) == fire.stage = "made" /\ fire.pc[p] = "idle" /\ fire.n < MaxFireCalls
fire_enter(p, l, t) ==
    [fire EXCEPT !.pc[p] = l, !.base_json_data[p] = t, !.n = @ + 1]

\* firestore_box, lines 49-58: load_firejson builds the reference (for a name
\* with "/" from the joined path, which is the same document) and calls
\* _create_resource_if_not_exists.
load_firejson_call(p) ==
    /\ fire_idle(p)
    /\ fire' = fire_enter(p, "resource_get", EmptyDict)
    /\ UNCHANGED <<baseVars, environ, secrets, cfg, sm, made, run, upd>>

\* DocumentSnapshot.to_dict() of a document that exists.
to_dict(doc) == FireDict(doc.data)

\* firestore_box, lines 32-33, 40-42, 60-61, 65-67: doc_ref.get(); of a
\* document that exists the snapshot is returned and load_firejson returns
\* its dict; an error of the request is caught by load_firejson, which
\* returns {}.
create_resource_if_not_exists(p, out) ==
    /\ fire.pc[p] = "resource_get"
    /\ out \in ReadOutcomes
    /\ fire' =
         IF out # "ok"
         THEN [fire EXCEPT !.pc[p] = "idle",
                           !.last = FireCall("load_firejson", FireDict(EmptyDict),
                                             "none", FALSE)]
         ELSE IF fire.doc.exists
         THEN [fire EXCEPT !.pc[p] = "idle",
                           !.last = FireCall("load_firejson", to_dict(fire.doc),
                                             "present", FALSE)]
         ELSE [fire EXCEPT !.pc[p] = "resource_set"]
    /\ UNCHANGED <<baseVars, environ, secrets, cfg, sm, made, run, upd>>

\* Mutant: the helper returns the snapshot of what it created, and
\* load_firejson the placeholder.
after_create_returns_placeholder(ph) == FireDict(ph.data)

\* firestore_box, lines 33-39, 59-61, 65-67: after create_firejson the helper
\* falls off its `if` branch and returns None; load_firejson calls
\* None.to_dict(), and the AttributeError is caught: `return {}`. An error of
\* the set ends in the same except clause.
after_create(ph) == FireDict(EmptyDict)

\* doc_ref.set(data): the document is created or replaced as a whole.
doc_ref_set(data) == Doc(data)

\* firestore_box, lines 35, 86-93: create_firejson(self.placeholder_full),
\* an unconditional doc_ref.set. With the default placeholder the set is
\* handed None, which the client library either rejects or takes for an
\* empty document (accepted).
create_firejson(p, out, accepted) ==
    /\ fire.pc[p] = "resource_set"
    /\ out \in WriteOutcomes
    /\ LET ph == fire.placeholder_full
           applied == out \in {"ok", "lost"} /\ (ph.given \/ accepted) IN
        fire' = [fire EXCEPT
                    !.pc[p] = "idle",
                    !.doc = IF applied THEN doc_ref_set(ph.data) ELSE @,
                    !.last = FireCall("load_firejson", after_create(ph),
                                      "absent", applied)]
    /\ UNCHANGED <<baseVars, environ, secrets, cfg, sm, made, run, upd>>

\* firestore, lines 17-25: create_single_firejson(base_json_data).
create_single_firejson(p, t) ==
    /\ fire_idle(p)
    /\ fire' = fire_enter(p, "single_get", t)
    /\ UNCHANGED <<baseVars, environ, secrets, cfg, sm, made, run, upd>>

\* firestore, lines 25-29: self.doc_ref.get(), outside the try.
create_single_get(p, out) ==
    /\ fire.pc[p] = "single_get"
    /\ out \in ReadOutcomes
    /\ fire' =
         IF out # "ok"
         THEN [fire EXCEPT !.pc[p] = "idle",
                           !.last = FireCall("create_single_firejson", FireRaise,
                                             "none", FALSE)]
         ELSE IF fire.doc.exists
         THEN [fire EXCEPT !.pc[p] = "idle",
                           !.last = FireCall("create_single_firejson", FireNone,
                                             "present", FALSE)]
         ELSE [fire EXCEPT !.pc[p] = "single_set"]
    /\ UNCHANGED <<baseVars, environ, secrets, cfg, sm, made, run, upd>>

\* firestore, lines 30-35: self.doc_ref.set(base_json_data); an error is
\* logged and raised again.
create_single_set(p, out) ==
    /\ fire.pc[p] = "single_set"
    /\ out \in WriteOutcomes
    /\ fire' = [fire EXCEPT
                   !.pc[p] = "idle",
                   !.doc = IF out \in {"ok", "lost"}
                           THEN doc_ref_set(fire.base_json_data[p]) ELSE @,
                   !.last = FireCall("create_single_firejson",
                                     IF out = "ok" THEN FireNone ELSE FireRaise,
                                     "absent", out \in {"ok", "lost"})]
    /\ UNCHANGED <<baseVars, environ, secrets, cfg, sm, made, run, upd>>

\* firestore_box, lines 96-105: set_firejson(data_name), one doc_ref.set by
\* another writer.
set_firejson(data, out) ==
    /\ fire.stage = "made"
    /\ fire.n < MaxFireCalls
    /\ out \in WriteOutcomes
    /\ fire' = [fire EXCEPT
                   !.n = @ + 1,
                   !.doc = IF out \in {"ok", "lost"} THEN doc_ref_set(data) ELSE @,
                   !.last = FireCall("set_firejson",
                                     IF out = "ok" THEN FireNone ELSE FireRaise,
                                     "none", out \in {"ok", "lost"})]
    /\ UNCHANGED <<baseVars, environ, secrets, cfg, sm, made, run, upd>>

----------------------------------------------------------------------------
(* Specifications *)

Init ==
    /\ now = 0
    /\ clients = {}
    /\ store = [k \in Keys |->
                  IF k \in InitKeys THEN Doc(new_record(k, 0)) ELSE NoDoc]
    /\ pc = [p \in Procs |-> "idle"]
    /\ marked = NoResult
    /\ args = [p \in Procs |-> NoArgs]
    /\ result = [p \in Procs |-> NoResult]
    /\ io = [p \in Procs |-> NoIo]
    /\ ncalls = 0
    /\ nNew = [k \in Keys |-> 0]
    /\ nDup = [k \in Keys |-> 0]
    /\ blobs = [x \in GcsPaths |-> IF x \in InitBlobs THEN Blob("c0") ELSE NoBlob]
    /\ files = [f \in LocalFiles |-> IF f \in InitFiles THEN File("c0") ELSE NoFile]
    /\ last = NoCall
    /\ environ = [n \in EnvNames |-> Unset]
    /\ secrets = [i \in SecretIds |-> <<>>]
    /\ cfg = NoConfig
    /\ sm = NoSecretCall
    /\ made = NoClientCalls
    /\ run = NoRun
    /\ upd = NoUpdate
    /\ fire = NoFire

\* Concurrent callers, remote requests that may fail.
Next ==
    \/ Tick
    \/ \E p \in Procs, k \in Keys, ttl \in TtlHours, out \in ReadOutcomes :
          check_and_mark_processed(p, k, ttl, out)
    \/ \E p \in Procs, out \in ReadOutcomes : check_get(p, out)
    \/ \E p \in Procs, out \in WriteOutcomes : check_set(p, out)
    \/ \E k \in Keys, rd \in ResultData, cout \in ReadOutcomes, out \in WriteOutcomes :
          mark_processing_complete(k, rd, cout, out)
    \/ \E k \in Keys, msg \in ErrorMessages, cout \in ReadOutcomes, out \in WriteOutcomes :
          mark_processing_failed(k, msg, cout, out)

Spec == Init /\ [][Next]_vars

\* One caller at a time, every remote request answered.
SeqNext ==
    \/ Tick
    \/ \E p \in Procs, k \in Keys, ttl \in TtlHours :
          Quiet(p) /\ check_and_mark_processed(p, k, ttl, "ok")
    \/ \E p \in Procs : check_get(p, "ok")
    \/ \E p \in Procs : check_set(p, "ok")
    \/ \E k \in Keys, rd \in ResultData :
          AllQuiet /\ mark_processing_complete(k, rd, "ok", "ok")
    \/ \E k \in Keys, msg \in ErrorMessages :
          AllQuiet /\ mark_processing_failed(k, msg, "ok", "ok")

SeqSpec == Init /\ [][SeqNext]_vars

\* The blob helpers: concurrent callers, remote requests that may fail.
BlobNext ==
    \/ \E p \in Procs, bn \in BucketNames, x \in GcsPaths, out \in ReadOutcomes :
          delete_blob(p, bn, x, out)
    \/ \E p \in Procs, out \in ReadOutcomes : delete_exists(p, out)
    \/ \E p \in Procs, out \in WriteOutcomes : delete_delete(p, out)
    \/ \E p \in Procs, bn \in BucketNames, x \in GcsPaths, i \in UploadInputs,
          out \in ReadOutcomes :
          upload_to_gcp_bucket(p, bn, x, i[1], i[2], out)
    \/ \E p \in Procs, out \in WriteOutcomes : upload_write(p, out)
    \/ \E p \in Procs, bn \in BucketNames, x \in GcsPaths, i \in DownloadInputs,
          out \in ReadOutcomes :
          download_from_gcp_bucket(p, bn, x, i[1], i[2], out)
    \/ \E p \in Procs, out \in ReadOutcomes : download_exists(p, out)
    \/ \E p \in Procs, out \in ReadOutcomes : download_read(p, out)

BlobSpec == Init /\ [][BlobNext]_vars

\* The blob helpers: one caller at a time, every remote request answered.
BlobSeqNext ==
    \/ \E p \in Procs, bn \in BucketNames, x \in GcsPaths :
          Quiet(p) /\ delete_blob(p, bn, x, "ok")
    \/ \E p \in Procs : delete_exists(p, "ok")
    \/ \E p \in Procs : delete_delete(p, "ok")
    \/ \E p \in Procs, bn \in BucketNames, x \in GcsPaths, i \in UploadInputs :
          Quiet(p) /\ upload_to_gcp_bucket(p, bn, x, i[1], i[2], "ok")
    \/ \E p \in Procs : upload_write(p, "ok")
    \/ \E p \in Procs, bn \in BucketNames, x \in GcsPaths, i \in DownloadInputs :
          Quiet(p) /\ download_from_gcp_bucket(p, bn, x, i[1], i[2], "ok")
    \/ \E p \in Procs : download_exists(p, "ok")
    \/ \E p \in Procs : download_read(p, "ok")

BlobSeqSpec == Init /\ [][BlobSeqNext]_vars

\* The blob helpers: concurrent callers, every remote request answered.
BlobRaceNext ==
    \/ \E p \in Procs, bn \in BucketNames, x \in GcsPaths : delete_blob(p, bn, x, "ok")
    \/ \E p \in Procs : delete_exists(p, "ok")
    \/ \E p \in Procs : delete_delete(p, "ok")
    \/ \E p \in Procs, bn \in BucketNames, x \in GcsPaths, i \in UploadInputs :
          upload_to_gcp_bucket(p, bn, x, i[1], i[2], "ok")
    \/ \E p \in Procs : upload_write(p, "ok")
    \/ \E p \in Procs, bn \in BucketNames, x \in GcsPaths, i \in DownloadInputs :
          download_from_gcp_bucket(p, bn, x, i[1], i[2], "ok")
    \/ \E p \in Procs : download_exists(p, "ok")
    \/ \E p \in Procs : download_read(p, "ok")

BlobRaceSpec == Init /\ [][BlobRaceNext]_vars

\* InjectConfig: one process, requests that may fail.
ConfigNext ==
    \/ \E doc \in ConfigDocs, sp \in SecretPayloads, lc \in LocalConfigs,
          s2set \in BOOLEAN :
          config_world(doc, sp, lc, s2set)
    \/ \E sv \in SecretEnvVarLists, sa \in SaEnvVarLists, ff \in BOOLEAN :
          InjectConfig(sv, sa, ff)
    \/ \E cout \in ReadOutcomes, out \in ReadOutcomes : inject_firestore(cout, out)
    \/ \E out \in ReadOutcomes : load_secret(out)
    \/ \E out \in ReadOutcomes : merge_and_inject(out)

ConfigSpec == Init /\ [][ConfigNext]_vars

\* The Secret Manager helpers: callers in any order, requests that may fail.
SecretNext ==
    \/ \E id \in SecretIds, v \in NewValues, out \in WriteOutcomes :
          update_secret_string(id, v, out)
    \/ \E id \in SecretIds, v \in NewValues, out \in WriteOutcomes :
          update_secret(id, v, out)
    \/ \E id \in SecretIds, d \in NewDicts, out \in WriteOutcomes :
          update_secret_json(id, d, out)
    \/ \E id \in SecretIds, out \in ReadOutcomes : get_secret_string(id, out)
    \/ \E pr \in ProjectIds, id \in SecretIds \cup {""}, k \in KeyArgs, v \in ValueArgs,
          out \in ReadOutcomes :
          add_or_update_secret_key(pr, id, k, v, out)
    \/ \E out \in WriteOutcomes : add_or_update_write(out)

SecretSpec == Init /\ [][SecretNext]_vars

\* get_any_client: calls in sequence, constructions that may fail.
ClientNext ==
    \E name \in ClientNames, pr \in Principals, how \in HowPassed, out \in ReadOutcomes :
        call_get_any_client(name, pr, how, out)

ClientSpec == Init /\ [][ClientNext]_vars

\* check_cloud_or_local_run: one process, calls in sequence.
RunNext ==
    \/ \E env \in StartEnvirons, file \in EnvFiles : run_world(env, file)
    \/ check_cloud_or_local_run

RunSpec == Init /\ [][RunNext]_vars

\* FirestoreMagic: concurrent callers and another writer, requests that may
\* fail.
FireNext ==
    \/ \E doc \in FireDocs, ph \in Placeholders : fire_world(doc, ph)
    \/ \E p \in Procs : load_firejson_call(p)
    \/ \E p \in Procs, out \in ReadOutcomes : create_resource_if_not_exists(p, out)
    \/ \E p \in Procs, out \in WriteOutcomes, accepted \in BOOLEAN :
          create_firejson(p, out, accepted)
    \/ \E p \in Procs, t \in Templates : create_single_firejson(p, t)
    \/ \E p \in Procs, out \in ReadOutcomes : create_single_get(p, out)
    \/ \E p \in Procs, out \in WriteOutcomes : create_single_set(p, out)
    \/ \E d \in FireData, out \in WriteOutcomes : set_firejson(d, out)

FireSpec == Init /\ [][FireNext]_vars

\* FirestoreMagic: one call at a time, every request answered.
FireSeqNext ==
    \/ \E doc \in FireDocs, ph \in Placeholders : fire_world(doc, ph)
    \/ \E p \in Procs : FireQuiet(p) /\ load_firejson_call(p)
    \/ \E p \in Procs : create_resource_if_not_exists(p, "ok")
    \/ \E p \in Procs, accepted \in BOOLEAN : create_firejson(p, "ok", accepted)
    \/ \E p \in Procs, t \in Templates : FireQuiet(p) /\ create_single_firejson(p, t)
    \/ \E p \in Procs : create_single_get(p, "ok")
    \/ \E p \in Procs : create_single_set(p, "ok")
    \/ \E d \in FireData :
          (\A q \in Procs : fire.pc[q] = "idle") /\ set_firejson(d, "ok")

FireSeqSpec == Init /\ [][FireSeqNext]_vars

----------------------------------------------------------------------------
(* The idempotency marker: properties *)

Done(p) == pc[p] = "done"
Returned(p, v) == Done(p) /\ result[p] = Return(v)
NewKeys == Keys \ InitKeys

\* C1. In a sequential run with no remote errors, for a key that has no
\* record the first check_and_mark_processed returns False and writes the
\* record, and every later one returns True: at most one call returned "new",
\* no call returned "duplicate" before one returned "new", the record exists
\* from then on, and no call raised.
C1_FirstNewThenDuplicate ==
    /\ \A k \in NewKeys :
        /\ nNew[k] <= 1
        /\ nDup[k] > 0 => nNew[k] = 1
        /\ nNew[k] = 1 => store[k].exists
        /\ ~store[k].exists => nNew[k] = 0
    /\ \A p \in Procs : Done(p) => result[p].kind = "return"

C1_Witness ==
    \E k \in NewKeys : nNew[k] = 1 /\ nDup[k] = 2 /\ store[k].exists

\* C2. The read and the write are separate steps and nothing joins them: a
\* caller that read the record as absent writes its record and returns False
\* whatever the store holds by then (a write that is answered replaces the
\* document, also one another caller wrote in between).
C2_UnconditionalWrite ==
    [][\A p \in Procs :
         (pc[p] = "set" /\ pc'[p] = "done" /\ io'[p].faults = io[p].faults)
         => /\ result'[p] = Return("False")
            /\ store'[args[p].key] = Doc(new_record(args[p].key, args[p].ttl))]_vars

\* Two callers, the same key without a record, no request failed: both read
\* it as absent, both wrote, both returned False.
C2_Witness ==
    \E p, q \in Procs :
        /\ p # q
        /\ args[p] = args[q]
        /\ \A r \in {p, q} :
            /\ Returned(r, "False")
            /\ args[r].key \in NewKeys
            /\ io[r] = [reads |-> 1, writes |-> 1, faults |-> 0, saw |-> "absent"]
        /\ nNew[args[p].key] = 2

\* C3. A call whose remote read or remote write failed returns False and does
\* not raise, whatever the store holds.
C3_ErrorReportsNew ==
    \A p \in Procs : (Done(p) /\ io[p].faults > 0) => result[p] = Return("False")

\* A read failed on a key whose record exists, and the call returned False.
C3_Witness ==
    \E p \in Procs :
        /\ Returned(p, "False")
        /\ io[p].faults = 1 /\ io[p].writes = 0
        /\ store[args[p].key].exists

\* C4. With failures and interleavings allowed, for a key that starts without
\* a record: a call returns True only when the record has been written, a
\* call that issued the write returns False, and so the calls for the key
\* never all return "duplicate".
C4_NoMessageLost ==
    /\ \A k \in NewKeys : nDup[k] > 0 => (nNew[k] > 0 /\ store[k].exists)
    /\ \A p \in Procs :
        /\ (Returned(p, "True") /\ args[p].key \in NewKeys) => store[args[p].key].exists
        /\ (Done(p) /\ io[p].writes > 0) => result[p] = Return("False")

\* A key without a record, a call on it that failed, and later a duplicate.
C4_Witness ==
    \E k \in NewKeys :
        /\ nDup[k] > 0 /\ nNew[k] > 0
        /\ \E p \in Procs : Done(p) /\ args[p].key = k /\ io[p].faults > 0

\* C5. A call (one that got its client) issues exactly one remote read and at
\* most one remote write, the write only after the read reported the record
\* absent; a call that finds the record present leaves the store as it is.
C5_Requests ==
    \A p \in Procs :
        /\ pc[p] = "get" => (io[p].reads = 0 /\ io[p].writes = 0)
        /\ pc[p] = "set" => (io[p].reads = 1 /\ io[p].writes = 0 /\ io[p].saw = "absent")
        /\ (Done(p) /\ result[p].kind = "return") =>
              /\ io[p].reads = 1
              /\ io[p].writes <= 1
              /\ io[p].writes = 1 => io[p].saw = "absent"
              /\ io[p].saw = "present" => result[p] = Return("True")

C5_PresentUnchanged ==
    \A p \in Procs :
        (pc[p] = "get" /\ io'[p].saw = "present") => store' = store

C5_OneReadAtMostOneWrite == [](C5_Requests) /\ [][C5_PresentUnchanged]_vars

\* A call that found a completed record and returned True.
C5_Witness ==
    \E p \in Procs :
        /\ Returned(p, "True")
        /\ io[p] = [reads |-> 1, writes |-> 0, faults |-> 0, saw |-> "present"]
        /\ "status" \in DOMAIN store[args[p].key].data

\* C6 as claimed: every record the run wrote has a status, one of pending,
\* completed, failed.
C6_StatusAlwaysSet ==
    \A k \in NewKeys :
        store[k].exists =>
            /\ "status" \in DOMAIN store[k].data
            /\ store[k].data.status \in {"pending", "completed", "failed"}

\* C6, amended. A record has no status field until mark_processing_complete
\* or mark_processing_failed sets it, and then the status is completed or
\* failed: no record has the status pending.
C6_StatusAbsentCompletedOrFailed ==
    \A k \in Keys :
        LET d == store[k].data IN
        (store[k].exists /\ "status" \in DOMAIN d)
            => /\ d.status \in {"completed", "failed"}
               /\ d.status = "completed" => "completed_at" \in DOMAIN d
               /\ d.status = "failed" => {"failed_at", "error"} \subseteq DOMAIN d

\* A record check_and_mark_processed wrote, with no status, and a record
\* marked failed.
C6_Witness ==
    /\ \E k \in NewKeys : store[k].exists /\ "status" \notin DOMAIN store[k].data
    /\ \E j \in Keys : /\ store[j].exists /\ "status" \in DOMAIN store[j].data
                       /\ store[j].data.status = "failed"

\* C25. A check_and_mark_processed whose read was answered decides by the
\* record's existence alone: on an existing record it returns True and
\* writes nothing, whatever the record's status (none, "completed", "failed")
\* and whether or not its expires_at has passed; on a missing record it goes
\* on to write. A call returns True only having read an existing record.
C25_ReadDecides ==
    \A p \in Procs :
        (pc[p] = "get" /\ pc'[p] # "get" /\ io'[p].faults = io[p].faults) =>
            /\ store[args[p].key].exists =>
                  /\ pc'[p] = "done"
                  /\ result'[p] = Return("True")
                  /\ store' = store
            /\ ~store[args[p].key].exists =>
                  /\ pc'[p] = "set"
                  /\ result'[p] = NoResult

C25_TrueMeansPresent ==
    \A p \in Procs : Returned(p, "True") => io[p].saw = "present"

C25_ExistenceAlone == [](C25_TrueMeansPresent) /\ [][C25_ReadDecides]_vars

\* A record marked failed whose expires_at has passed, reported as a
\* duplicate.
C25_Witness ==
    \E p \in Procs :
        /\ Returned(p, "True")
        /\ io[p].saw = "present"
        /\ LET doc == store[args[p].key] IN
              /\ doc.exists
              /\ "status" \in DOMAIN doc.data
              /\ doc.data.status = "failed"
              /\ doc.data.failed_at < now
              /\ doc.data.expires_at < now

\* C26. A record that exists exists in every later state; a key gets its
\* record only from the write of check_and_mark_processed; a
\* mark_processing_complete or mark_processing_failed that returns has
\* written onto a record that existed, and one that raises NotFound leaves
\* the store as it is.
C26_Step ==
    /\ \A k \in Keys : store[k].exists => store'[k].exists
    /\ \A k \in Keys :
          (~store[k].exists /\ store'[k].exists) =>
              \E p \in Procs : pc[p] = "set" /\ pc'[p] = "done" /\ args[p].key = k
    /\ (marked' # marked /\ marked' = Return("None")) =>
          \E k \in Keys :
              /\ store[k].exists
              /\ store'[k].exists
              /\ "status" \in DOMAIN store'[k].data
    /\ (marked' # marked /\ marked' = Raise("NotFound")) => store' = store

C26_RecordsStay == [][C26_Step]_vars

\* A mark on a key without a record raised NotFound and left no record; the
\* other key's record is still there, by now marked.
C26_Witness ==
    /\ marked = Raise("NotFound")
    /\ \E k \in NewKeys : ~store[k].exists
    /\ \E k \in InitKeys :
          store[k].exists /\ "status" \in DOMAIN store[k].data

----------------------------------------------------------------------------
(* The blob helpers: properties *)

Ended(name) == last.result.kind # "none" /\ last.args.op = name

\* C7. With every request answered and one caller at a time: a delete_blob
\* that finds no object at (bucket, path) returns True, and a delete_blob that
\* follows a delete_blob of the same object returns True as the first did,
\* finding no object; the step that finds no object leaves the bucket as it
\* is.
C7_AbsentIsSuccess ==
    Ended("delete_blob") =>
        /\ last.io.saw = "absent" => last.result = Return("True")
        /\ last.afterDelete =>
              /\ last.result = Return("True")
              /\ last.io.saw \in {"absent", "none"}
              /\ last.io.writes = 0

C7_AbsentUnchanged ==
    \A p \in Procs :
        (pc[p] = "del_exists" /\ pc'[p] = "idle" /\ last'.io.saw = "absent")
            => (blobs' = blobs /\ files' = files)

C7_DeleteNonexistent == [](C7_AbsentIsSuccess) /\ [][C7_AbsentUnchanged]_vars

\* An object of the bucket deleted, then deleted again: True both times.
C7_Witness ==
    /\ Ended("delete_blob")
    /\ last.args.path \in InitBlobs
    /\ last.afterDelete
    /\ last.io.saw = "absent"
    /\ last.result = Return("True")

\* C8 as claimed: delete_blob never lets an error out; it returns False when
\* obtaining the bucket handle, the existence check or the delete failed, and
\* True only when it deleted the object or the object did not exist.
C8_DeleteNeverRaises ==
    Ended("delete_blob") =>
        /\ last.result.kind = "return"
        /\ (~last.handle \/ last.io.faults > 0) => last.result = Return("False")
        /\ last.result = Return("True") =>
              \/ last.io.saw = "absent"
              \/ last.args.path = ""
              \/ (last.io.saw = "present" /\ last.io.writes = 1 /\ last.io.faults = 0)

\* C9. upload_to_gcp_bucket with an empty gcs_path raises, whatever the
\* filetype, and issues no request: ValueError once it has the bucket handle
\* (get_bucket's own error when it has not).
C9_EmptyPathRejected ==
    (Ended("upload_to_gcp_bucket") /\ last.args.path = "") =>
        /\ last.result.kind = "raise"
        /\ last.handle => last.result = Raise("ValueError")
        /\ last.io.reads = 0 /\ last.io.writes = 0
        /\ \A x \in GcsPaths \ (InitBlobs \cup {"a"}) : ~blobs[x].exists

C9_Witness ==
    /\ Ended("upload_to_gcp_bucket")
    /\ last.args.path = "" /\ last.args.filetype = "string"
    /\ last.handle
    /\ last.result = Raise("ValueError")

\* C10. download_from_gcp_bucket of a non-empty blob_name whose object does
\* not exist (blob.exists() answers no) returns {} for "text" and False for
\* "blob", after that one request, and the step creates no object and no
\* local file.
C10_AbsentResult ==
    (Ended("download_from_gcp_bucket") /\ last.args.path # "" /\ last.io.saw = "absent") =>
        /\ last.args.filetype = "text" => last.result = Return("{}")
        /\ last.args.filetype = "blob" => last.result = Return("False")
        /\ last.io = [reads |-> 1, writes |-> 0, faults |-> 0, saw |-> "absent"]

C10_AbsentUnchanged ==
    \A p \in Procs :
        (pc[p] = "down_exists" /\ pc'[p] = "idle" /\ last'.io.saw = "absent")
            => (blobs' = blobs /\ files' = files)

C10_DownloadNonexistent == [](C10_AbsentResult) /\ [][C10_AbsentUnchanged]_vars

C10_Witness ==
    /\ Ended("download_from_gcp_bucket")
    /\ last.args.filetype = "blob" /\ last.args.local = "d/g"
    /\ last.io.saw = "absent"
    /\ last.result = Return("False")
    /\ ~files["d/g"].exists

\* C11. With one caller at a time and every request answered, the bucket
\* follows the last successful call on a path: after an upload the object
\* exists and holds what that upload sent, whatever it held before, after a
\* delete_blob it does not exist, and no other step changes an object.
C11_LastCallDecides ==
    /\ (Ended("upload_to_gcp_bucket") /\ last.result = Return(last.args.path)) =>
           blobs[last.args.path] =
               Blob(upload_content(last.args.filetype, last.args.local))
    /\ (Ended("delete_blob") /\ last.result = Return("True") /\ last.args.path # "") =>
           ~blobs[last.args.path].exists

C11_OnlyTheseWrite ==
    \A x \in GcsPaths :
        blobs'[x] # blobs[x] =>
            \E p \in Procs :
                /\ pc[p] \in {"up_write", "del_delete"} /\ pc'[p] = "idle"
                /\ args[p].path = x
                /\ last'.result \in {Return(x), Return("True")}

C11_Lifecycle == [](C11_LastCallDecides) /\ [][C11_OnlyTheseWrite]_vars

\* An upload onto an object that existed with another content.
C11_Witness ==
    /\ Ended("upload_to_gcp_bucket")
    /\ last.args.path \in InitBlobs
    /\ last.result = Return(last.args.path)
    /\ blobs[last.args.path] = Blob("[1, 2]")

\* C24. An upload_to_gcp_bucket (the bucket handle obtained) with a non-empty
\* gcs_path and a filetype outside {"filename", "file", "string",
\* "string_path"}, the default "" included, returns None without a request,
\* and the step leaves bucket and local files as they are; an upload that
\* returns gcs_path made one write request, which succeeded, and the object
\* exists when it returns.
C24_OtherFiletype(a) ==
    /\ a # NoArgs
    /\ a.op = "upload_to_gcp_bucket"
    /\ a.path # ""
    /\ a.filetype \notin {"filename", "file", "string", "string_path"}

C24_NoneWithoutRequest ==
    /\ (Ended("upload_to_gcp_bucket") /\ last.handle /\ C24_OtherFiletype(last.args)) =>
           /\ last.result = Return("None")
           /\ last.io = NoIo
    /\ \A p \in Procs : ~C24_OtherFiletype(args[p])
    /\ (Ended("upload_to_gcp_bucket") /\ last.result = Return(last.args.path)) =>
           /\ last.io.writes = 1
           /\ last.io.faults = 0

C24_CallWritesNothing ==
    (last' # last /\ C24_OtherFiletype(last'.args)) =>
        (blobs' = blobs /\ files' = files)

C24_UnknownFiletype == [](C24_NoneWithoutRequest) /\ [][C24_CallWritesNothing]_vars

\* An upload with the default filetype onto an object of the bucket.
C24_Witness ==
    /\ Ended("upload_to_gcp_bucket")
    /\ last.handle
    /\ last.args.path \in InitBlobs
    /\ last.args.filetype = ""
    /\ last.result = Return("None")
    /\ blobs[last.args.path].exists

\* C23. With one caller at a time and every request answered: a download
\* with filetype "text" that follows an upload of a JSON-serialisable value
\* with filetype "string" to the same (bucket, path) finds the object and
\* returns the value read back from its JSON text, json.loads(json.dumps(v));
\* that is the uploaded value when it is made of JSON's own types (here the
\* dict), and a list where a tuple was uploaded.
C23_AfterUpload(p) ==
    /\ args[p] # NoArgs
    /\ args[p].op = "download_from_gcp_bucket"
    /\ args[p].filetype = "text"
    /\ last.args # NoArgs
    /\ last.args.op = "upload_to_gcp_bucket"
    /\ last.args.filetype = "string"
    /\ last.args.bucket = args[p].bucket
    /\ last.args.path = args[p].path
    /\ last.result = Return(last.args.path)

C23_JsonNative(v) == v \in {"{}"}

C23_ReadsJsonImage ==
    \A p \in Procs :
        C23_AfterUpload(p) =>
            /\ pc[p] = "down_exists" => pc'[p] = "down_read"
            /\ (pc[p] = "down_read" /\ pc'[p] = "idle") =>
                  /\ last'.result = Return(json_loads(json_dumps(last.args.local)))
                  /\ C23_JsonNative(last.args.local) =>
                        last'.result = Return(last.args.local)
                  /\ last.args.local = "(1, 2)" => last'.result = Return("[1, 2]")

C23_RoundTripAsJson == [][C23_ReadsJsonImage]_vars

\* C23 as claimed: the download returns a value equal to the uploaded one.
C23_ReturnsUploaded ==
    \A p \in Procs :
        (C23_AfterUpload(p) /\ pc[p] = "down_read" /\ pc'[p] = "idle") =>
            last'.result = Return(last.args.local)

C23_RoundTripEqual == [][C23_ReturnsUploaded]_vars

\* A tuple uploaded to a new path and downloaded as text.
C23_Witness ==
    /\ Ended("download_from_gcp_bucket")
    /\ last.args.filetype = "text"
    /\ last.args.path \notin InitBlobs
    /\ last.io.saw = "present"
    /\ last.result = Return("[1, 2]")
    /\ blobs[last.args.path] = Blob(json_dumps("(1, 2)"))

\* C16 as claimed: an upload or a download one of whose remote requests
\* failed raises RuntimeError.
C16_RemoteFailureIsRuntimeError ==
    (/\ last.result.kind # "none"
     /\ last.args.op \in {"upload_to_gcp_bucket", "download_from_gcp_bucket"}
     /\ last.io.faults > 0)
    => last.result = Raise("RuntimeError")

\* C17 as claimed: a download with filetype "blob" and an empty local_path
\* (and the bucket handle it asked for) raises ValueError without a request.
C17_EmptyLocalPathRejectedFirst ==
    (/\ Ended("download_from_gcp_bucket")
     /\ last.handle
     /\ last.args.filetype = "blob" /\ last.args.local = "")
    => (last.result = Raise("ValueError") /\ last.io.reads = 0)

\* C19 as claimed: with every request answered, a delete_blob of a named
\* object returns True, also when another delete_blob of the object runs at
\* the same time.
C19_ConcurrentDeletesSucceed ==
    (Ended("delete_blob") /\ last.handle) => last.result = Return("True")

----------------------------------------------------------------------------
(* InjectConfig: properties *)

Injected == cfg.stage = "done" /\ cfg.result = Return("None")
\* The dict local_config.json holds, when the project root and the file are
\* found and the file parses to an object.
LocalFileDict ==
    IF cfg.local.root /\ cfg.local.file.exists /\ cfg.local.file.content.kind = "dict"
    THEN cfg.local.file.content.value
    ELSE EmptyDict
\* The secrets that were loaded and hold the key, in the order of loading.
LoadedWith(k) == SelectSeq(cfg.loaded, LAMBDA id : k \in DOMAIN secrets[id][1].value)

\* C12. After load_and_inject_config, a key that local_config.json (found
\* and read) holds and that the Firestore document as loaded or a loaded
\* secret holds as well, has in the environment the str() of the local
\* file's value.
C12_LocalWins ==
    (Injected /\ cfg.local_overrides = LocalFileDict) =>
        \A k \in DOMAIN LocalFileDict :
            (k \in DOMAIN cfg.firestore_config \/ LoadedWith(k) # <<>>)
                => environ[k] = str(LocalFileDict[k])

\* The local file, the document and a secret hold A, the local file and the
\* document hold B: both variables have the local values, as strings.
C12_Witness ==
    /\ Injected
    /\ LocalFileDict = [A |-> "True", B |-> "'l'"]
    /\ DOMAIN cfg.firestore_config = {"A", "B"}
    /\ LoadedWith("A") # <<>>
    /\ environ["A"] = "True" /\ environ["B"] = "l"

\* C13. After load_and_inject_config, a key that a loaded secret and the
\* Firestore document as loaded hold and local_config.json does not, has in
\* the environment the str() of the secret's value: of the secret loaded
\* last, when several loaded secrets hold the key.
C13_SecretWins ==
    Injected =>
        \A k \in ConfigNames :
            (/\ LoadedWith(k) # <<>>
             /\ k \in DOMAIN cfg.firestore_config
             /\ k \notin DOMAIN LocalFileDict)
            => LET w == LoadedWith(k) IN
               environ[k] = str(secrets[w[Len(w)]][1].value[k])

\* Both secrets and the document hold A, no local override: the secret
\* listed last decides.
C13_Witness ==
    /\ Injected
    /\ cfg.list_of_secret_env_vars = <<"S2", "S1">>
    /\ cfg.loaded = <<"s2", "s1">>
    /\ LoadedWith("A") = <<"s2", "s1">>
    /\ "A" \in DOMAIN cfg.firestore_config
    /\ LocalFileDict = EmptyDict
    /\ environ["A"] = "s1"

\* C27 as claimed: after load_and_inject_config, whenever local_config.json
\* was found and parsed to an object, every key of it is in the environment
\* with the str() of its value, also when the Firestore document and the
\* secrets contributed no key.
C27_LocalAlwaysInjected ==
    (Injected /\ LocalFileDict # EmptyDict /\ cfg.local_overrides = LocalFileDict) =>
        \A k \in DOMAIN LocalFileDict : environ[k] = str(LocalFileDict[k])

----------------------------------------------------------------------------
(* The Secret Manager helpers: properties *)

SecretUpdates == {"update_secret_string", "update_secret_json", "update_secret"}

\* C14. The update helpers only append. A successful update leaves the secret
\* with the versions it had, in their order and with their payloads, and one
\* more, the value handed in; no step of any helper removes or changes a
\* version or adds more than one; get_secret_string reads (stripped) the
\* version that is last by then.
C14_LastCall ==
    /\ (sm.op \in SecretUpdates /\ sm.result = Return("None")) =>
          secrets[sm.id] = sm.before \o <<sm.value>>
    /\ (sm.op = "get_secret_string" /\ sm.result.kind = "return") =>
          /\ secrets[sm.id] # <<>>
          /\ sm.read = strip(secrets[sm.id][Len(secrets[sm.id])])

C14_VersionsKept ==
    \A id \in SecretIds :
        /\ Len(secrets'[id]) \in {Len(secrets[id]), Len(secrets[id]) + 1}
        /\ SubSeq(secrets'[id], 1, Len(secrets[id])) = secrets[id]

C14_OnlyAppend == [](C14_LastCall) /\ [][C14_VersionsKept]_vars

\* Two updates of one secret, then a read: two versions, the second one read.
C14_Witness ==
    /\ sm.op = "get_secret_string" /\ sm.result.kind = "return"
    /\ secrets[sm.id] = <<DictPayload([A |-> "'s1'"]), Padded(DictPayload([A |-> "'s2'"]))>>
    /\ sm.read = DictPayload([A |-> "'s2'"])

\* C20. add_or_update_secret_key returns True only when it has written a new
\* version, the dict of the version it read with key set to value (every
\* other key with its value); and a call that returns False because
\* project_id, secret_id or key is empty, or because the latest version could
\* not be read or is not a JSON object, has written nothing.
C20_TrueMeansWritten ==
    (sm.op = "add_or_update_secret_key" /\ sm.result = Return("True")) =>
        /\ sm.read.kind = "dict"
        /\ secrets[sm.id] = sm.before \o <<sm.value>>
        /\ sm.value.kind = "dict"
        /\ DOMAIN sm.value.value = DOMAIN sm.read.value \cup {sm.key}
        /\ sm.value.value[sm.key] = sm.val
        /\ \A k \in DOMAIN sm.read.value \ {sm.key} :
              sm.value.value[k] = sm.read.value[k]

C20_RejectedWritesNothing ==
    (/\ sm'.n # sm.n
     /\ sm'.op = "add_or_update_secret_key"
     /\ sm'.result = Return("False")
     /\ (sm'.project = "" \/ sm'.id = "" \/ sm'.key = "" \/ sm'.read.kind # "dict"))
    => (secrets' = secrets /\ upd.stage = "idle")

C20_UpdateKey == [](C20_TrueMeansWritten) /\ [][C20_RejectedWritesNothing]_vars

\* The second key of a version with two keys set: the other key kept.
C20_Witness ==
    /\ sm.op = "add_or_update_secret_key" /\ sm.result = Return("True")
    /\ sm.read = DictPayload([A |-> "'s1'", B |-> "'1'"])
    /\ sm.key = "B"
    /\ sm.value = DictPayload([A |-> "'s1'", B |-> "'v'"])
    /\ Len(secrets[sm.id]) = 2

----------------------------------------------------------------------------
(* get_any_client: properties *)

\* C15 as claimed: in one process a client for a client name (as spelled) and
\* a target principal is constructed at most once.
C15_ConstructedOnce ==
    \A s \in ClientNames \X Principals : made.built[s] <= 1

----------------------------------------------------------------------------
(* check_cloud_or_local_run: properties *)

\* C18. check_cloud_or_local_run leaves every variable that was set with its
\* value; a variable it adds was unset and has the env file's value; under
\* the hosted runtime (K_REVISION set and not empty) it reads no file and
\* leaves the environment as it was; and when the local branch returns
\* DEFAULT_APP_ID, GCP_PROJECT_ID is set.
C18_EnvironmentKept ==
    /\ \A n \in EnvNames :
          /\ run.start[n] # Unset => environ[n] = run.start[n]
          /\ environ[n] # run.start[n] =>
                /\ n \in DOMAIN run.file.content
                /\ environ[n] = run.file.content[n]
    /\ run.start[CLOUD_RUN_REVISION_VAR] \notin {Unset, ""} =>
          (environ = run.start /\ ~run.read_file)
    /\ run.result = Return(DEFAULT_APP_ID) => environ[CRITICAL_LOCAL_VAR] # Unset

C18_ReadsNoFileWhenHosted ==
    environ[CLOUD_RUN_REVISION_VAR] \notin {Unset, ""} => ~run'.read_file

C18_OnlyAddsUnset == [](C18_EnvironmentKept) /\ [][C18_ReadsNoFileWhenHosted]_vars

\* A local run that loaded the env file: A kept the value of the shell,
\* GCP_PROJECT_ID came from the file.
C18_Witness ==
    /\ run.result = Return(DEFAULT_APP_ID) /\ run.read_file
    /\ run.start["A"] = "shell" /\ environ["A"] = "shell"
    /\ run.file.content = [GCP_PROJECT_ID |-> "file", A |-> "file"]
    /\ environ["GCP_PROJECT_ID"] = "file"

----------------------------------------------------------------------------
(* FirestoreMagic: properties *)

\* C21. With one call at a time and every request answered: a load_firejson
\* that finds the document returns its dict as stored and writes nothing; one
\* that finds no document sets it (writing nothing before that) and returns
\* the empty dict, and with a placeholder given the document is then the
\* placeholder; the load_firejson that follows such a call returns the
\* placeholder's content.
C21_Step ==
    \A p \in Procs :
        /\ (fire.pc[p] = "resource_get" /\ fire'.pc[p] # "resource_get") =>
              /\ fire'.doc = fire.doc
              /\ fire.doc.exists =>
                    /\ fire'.pc[p] = "idle"
                    /\ fire'.last.result = FireDict(fire.doc.data)
                    /\ ~fire'.last.wrote
              /\ ~fire.doc.exists => fire'.pc[p] = "resource_set"
              /\ (/\ fire.last.op = "load_firejson"
                  /\ fire.last.wrote
                  /\ fire.placeholder_full.given) =>
                    /\ fire'.pc[p] = "idle"
                    /\ fire'.last.result = FireDict(fire.placeholder_full.data)
        /\ (fire.pc[p] = "resource_set" /\ fire'.pc[p] = "idle") =>
              /\ fire'.last.result = FireDict(EmptyDict)
              /\ fire.placeholder_full.given =>
                    /\ fire'.last.wrote
                    /\ fire'.doc = Doc(fire.placeholder_full.data)

C21_LoadCreates == [][C21_Step]_vars

\* No document at the start: the first load_firejson has created it from the
\* placeholder, the second has returned the placeholder's content.
C21_Witness ==
    /\ fire.start = NoDoc
    /\ fire.n = 2
    /\ fire.last.op = "load_firejson"
    /\ fire.last.found = "present"
    /\ fire.placeholder_full = Placeholder([A |-> "'p'"])
    /\ fire.last.result = FireDict([A |-> "'p'"])
    /\ fire.doc = Doc([A |-> "'p'"])

\* C22 as claimed: the set of create_single_firejson and of
\* _create_resource_if_not_exists (with a placeholder to write) never replaces
\* a document that exists, also when the document was created or set after
\* the helper's get.
C22_Step ==
    \A p \in Procs :
        (/\ \/ fire.pc[p] = "single_set"
            \/ fire.pc[p] = "resource_set" /\ fire.placeholder_full.given
         /\ fire'.pc[p] = "idle"
         /\ fire.doc.exists)
        => fire'.doc = fire.doc

C22_ExistingNeverOverwritten == [][C22_Step]_vars

====
